---- MODULE Spec2Model ----
(***************************************************************************)
(* A model of CryptoAgent (src/main.py): the sliding-window rate limiter,  *)
(* the price cache, get_crypto_price, intent classification, the          *)
(* dispatcher with its three handlers, and the loop of start_conversation. *)
(*                                                                         *)
(* Time is the value time.time() returns, in whole seconds; successive     *)
(* reads never decrease.  Every call of a method is one action; what the   *)
(* outside world answers (the clock, the HTTP response, the model's        *)
(* replies) is an input of the action, drawn from a small set.             *)
(***************************************************************************)
EXTENDS Integers, Sequences, FiniteSets, TLC

VARIABLES
    now,                 \* the last value read from time.time()
    request_timestamps,  \* self.request_timestamps
    cache,               \* self.cache: a dict, modelled as a function on its keys
    context,             \* self.context
    calls,               \* history: one record per call the rate limiter accepted
    fetched,             \* history: per symbol, the last price fetched and when
    last,                \* history: the inputs and the result of the last operation
    processed,           \* history: one record per call of process_user_message
    loop,                \* where start_conversation is: "reading", "ended", "crashed"
    stdin                \* "open", or "eof" once input() has met the end of the input

vars == <<now, request_timestamps, cache, context, calls, fetched, last,
          processed, loop, stdin>>

----------------------------------------------------------------------------
(* Program constants *)

rate_limit_window == 60

rate_limit_max_requests == 5

cache_duration == 60

RATE_LIMIT_MESSAGE == "Rate limit exceeded. Please wait a moment before trying again."

FAILED_MESSAGE == "Failed to fetch price."

NOT_AVAILABLE_MESSAGE == "Price not available."

(* Bounds of the model *)

MaxTime == 90

\* The most calls the rate limiter accepts in one run of the model.
MaxCalls == 7

\* The same two bounds for runs of get_crypto_price calls.
MaxPriceTime == 60

MaxPriceCalls == 6

\* The clock is observed on a 30-second grid, so that a recorded time is 0, 30
\* (inside the window), 60 (exactly the window) or 90 seconds old.  Delays is
\* how far the clock has moved when an is_rate_limited call reads it,
\* PriceDelays the same for a get_crypto_price call, ReadGaps how far
\* between the two reads of one get_crypto_price call (lines 27 and 47).
Delays == {0, 30, 60}

PriceDelays == {0, 30}

ReadGaps == {0, 30}

Symbols == {"bitcoin", "ethereum"}

\* Values of the usd field; 0 is a number Python treats as false.
Prices == {0, 65000}

----------------------------------------------------------------------------
(* Helpers on sequences *)

Last(s) == s[Len(s)]

IsPrefix(s, t) == Len(s) <= Len(t) /\ \A i \in 1..Len(s) : s[i] = t[i]

----------------------------------------------------------------------------
(* State after __init__ *)

NoOp == [op |-> "none"]

Init ==
    /\ now = 0
    /\ request_timestamps = <<>>
    /\ cache = <<>>
    /\ context = <<>>
    /\ calls = <<>>
    /\ fetched = <<>>
    /\ last = NoOp
    /\ processed = <<>>
    /\ loop = "reading"
    /\ stdin = "open"

----------------------------------------------------------------------------
(* is_rate_limited: prune, then reject without recording or record and     *)
(* accept.  The result carries the returned flag and the new list.         *)

\* Prune with a timestamp exactly a window old kept.
Prune_inclusive(ts, current_time) ==
    SelectSeq(ts, LAMBDA t : current_time - t <= rate_limit_window)

Prune(ts, current_time) ==
    SelectSeq(ts, LAMBDA t : current_time - t < rate_limit_window)

\* is_rate_limited with the accepted call left unrecorded.
is_rate_limited_unrecorded(ts, current_time) ==
    LET kept == Prune(ts, current_time) IN
    [limited |-> Len(kept) >= rate_limit_max_requests, request_timestamps |-> kept]

is_rate_limited_offbyone(ts, current_time) ==
    LET kept == Prune(ts, current_time) IN
    IF Len(kept) > rate_limit_max_requests
    THEN [limited |-> TRUE, request_timestamps |-> kept]
    ELSE [limited |-> FALSE, request_timestamps |-> Append(kept, current_time)]

\* is_rate_limited with the rejected call recorded as well.
is_rate_limited_recording_rejects(ts, current_time) ==
    LET kept == Prune(ts, current_time) IN
    [limited |-> Len(kept) >= rate_limit_max_requests,
     request_timestamps |-> Append(kept, current_time)]

is_rate_limited(ts, current_time) ==
    LET kept == Prune(ts, current_time) IN
    IF Len(kept) >= rate_limit_max_requests
    THEN [limited |-> TRUE, request_timestamps |-> kept]
    ELSE [limited |-> FALSE, request_timestamps |-> Append(kept, current_time)]

\* The history keeps one record per call the rate limiter accepted: the clock
\* value t that is_rate_limited read, whether the call went on to issue the
\* HTTP request, and the clock value read last before it did (line 47).
Accepted(history, limited, t, at, http) ==
    IF limited THEN history
    ELSE Append(history, [t |-> t, http |-> http, at |-> IF http THEN at ELSE t])

\* A direct call of is_rate_limited at clock value now + d.
IsRateLimitedCall ==
    /\ \E d \in Delays :
        \E r \in {is_rate_limited(request_timestamps, now + d)} :
        LET t == now + d IN
        /\ t <= MaxTime
        /\ r.limited \/ Len(calls) < MaxCalls
        /\ now' = t
        /\ request_timestamps' = r.request_timestamps
        /\ calls' = Accepted(calls, r.limited, t, t, FALSE)
        /\ last' = [op |-> "is_rate_limited", t |-> t, limited |-> r.limited]
    /\ UNCHANGED <<cache, context, fetched, processed, loop, stdin>>

NextRate == IsRateLimitedCall

SpecRate == Init /\ [][NextRate]_vars

----------------------------------------------------------------------------
(* The price API's answer to one GET, as far as the code looks at it.      *)
(*   network_error  requests.get raises a RequestException                 *)
(*   http_500       raise_for_status raises HTTPError                      *)
(*   not_json       2xx, response.json() raises: what it raises depends on *)
(*                  the installed requests library, its own JSONDecodeError *)
(*                  (a RequestException: caught) or the json module's (a   *)
(*                  ValueError: not caught)                                *)
(*   json_list      2xx, the body parses to something that is not a dict   *)
(*   json_object    2xx, the body parses to the dict data: a function from *)
(*                  some of the symbols to entries, an entry being either  *)
(*                  not an object or an object with or without usd         *)

Entries ==
    {[object |-> FALSE, has_usd |-> FALSE, usd |-> 0],
     [object |-> TRUE, has_usd |-> FALSE, usd |-> 0]}
    \cup {[object |-> TRUE, has_usd |-> TRUE, usd |-> p] : p \in Prices}

\* Bodies that hold at most the one key the request asked for.
Datas(symbol) == {<<>>} \cup {[k \in {symbol} |-> e] : e \in Entries}

Responses(symbol) ==
    {[type |-> "network_error"], [type |-> "http_500"], [type |-> "json_list"]}
    \cup {[type |-> "not_json", caught |-> b] : b \in BOOLEAN}
    \cup {[type |-> "json_object", data |-> d] : d \in Datas(symbol)}

\* f"The current price of {crypto_symbol} is ${price} USD."
FormatPrice(crypto_symbol, price) ==
    "The current price of " \o crypto_symbol \o " is $" \o ToString(price) \o " USD."

\* Python truth of a usd value (a number): zero is false.
Truthy(price) == price # 0

----------------------------------------------------------------------------
(* get_crypto_price.  Result: the new request_timestamps and cache, the    *)
(* returned string, whether an exception left the method instead (raised), *)
(* and whether the HTTP request was issued.                                *)

Outcome(ts, c, result, raised, http, limited) ==
    [request_timestamps |-> ts, cache |-> c, result |-> result,
     raised |-> raised, http |-> http, limited |-> limited, stored |-> FALSE]

\* Lines 64-71: what is made of the body of a 2xx answer.
Parse(ts, c, crypto_symbol, current_time, response) ==
    CASE response.type = "not_json" ->
            IF response.caught THEN Outcome(ts, c, FAILED_MESSAGE, FALSE, TRUE, FALSE)
                               ELSE Outcome(ts, c, "JSONDecodeError", TRUE, TRUE, FALSE)
      [] response.type = "json_list" ->
            Outcome(ts, c, "AttributeError", TRUE, TRUE, FALSE)
      [] response.type = "json_object" ->
            LET data == response.data IN
            IF crypto_symbol \notin DOMAIN data
            THEN Outcome(ts, c, NOT_AVAILABLE_MESSAGE, FALSE, TRUE, FALSE)
            ELSE IF ~data[crypto_symbol].object
            THEN Outcome(ts, c, "AttributeError", TRUE, TRUE, FALSE)
            ELSE IF data[crypto_symbol].has_usd /\ Truthy(data[crypto_symbol].usd)
            THEN LET text == FormatPrice(crypto_symbol, data[crypto_symbol].usd)
                     entry == [price |-> text, timestamp |-> current_time]
                     stored == [k \in DOMAIN c \cup {crypto_symbol} |->
                                   IF k = crypto_symbol THEN entry ELSE c[k]]
                 IN  [Outcome(ts, stored, text, FALSE, TRUE, FALSE) EXCEPT !.stored = TRUE]
            ELSE Outcome(ts, c, NOT_AVAILABLE_MESSAGE, FALSE, TRUE, FALSE)

\* Fetch with the symbol's cache entry dropped when the request fails.
Fetch_evicting(ts, c, crypto_symbol, current_time, response) ==
    IF response.type \in {"network_error", "http_500"}
    THEN Outcome(ts, [k \in DOMAIN c \ {crypto_symbol} |-> c[k]], FAILED_MESSAGE,
                 FALSE, TRUE, FALSE)
    ELSE Parse(ts, c, crypto_symbol, current_time, response)

\* Lines 61-74: the request and what is made of its answer.
Fetch(ts, c, crypto_symbol, current_time, response) ==
    IF response.type \in {"network_error", "http_500"}
    THEN Outcome(ts, c, FAILED_MESSAGE, FALSE, TRUE, FALSE)
    ELSE Parse(ts, c, crypto_symbol, current_time, response)

\* get_crypto_price with the cache consulted before the rate limiter.
get_crypto_price_cache_first(ts, c, crypto_symbol, rate_time, current_time, response) ==
    IF /\ crypto_symbol \in DOMAIN c
       /\ current_time - c[crypto_symbol].timestamp < cache_duration
    THEN Outcome(ts, c, c[crypto_symbol].price, FALSE, FALSE, FALSE)
    ELSE LET r == is_rate_limited(ts, rate_time) IN
         IF r.limited
         THEN Outcome(r.request_timestamps, c, RATE_LIMIT_MESSAGE, FALSE, FALSE, TRUE)
         ELSE Fetch(r.request_timestamps, c, crypto_symbol, current_time, response)

\* get_crypto_price with the cache never consulted (lines 48-53 left out).
get_crypto_price_uncached(ts, c, crypto_symbol, rate_time, current_time, response) ==
    LET r == is_rate_limited(ts, rate_time) IN
    IF r.limited
    THEN Outcome(r.request_timestamps, c, RATE_LIMIT_MESSAGE, FALSE, FALSE, TRUE)
    ELSE Fetch(r.request_timestamps, c, crypto_symbol, current_time, response)

\* rate_time is the clock value is_rate_limited reads (line 27), current_time
\* the value line 47 reads.
get_crypto_price(ts, c, crypto_symbol, rate_time, current_time, response) ==
    LET r == is_rate_limited(ts, rate_time) IN
    IF r.limited
    THEN Outcome(r.request_timestamps, c, RATE_LIMIT_MESSAGE, FALSE, FALSE, TRUE)
    ELSE IF /\ crypto_symbol \in DOMAIN c
            /\ current_time - c[crypto_symbol].timestamp < cache_duration
    THEN Outcome(r.request_timestamps, c, c[crypto_symbol].price, FALSE, FALSE, FALSE)
    ELSE Fetch(r.request_timestamps, c, crypto_symbol, current_time, response)

\* The history of fetched prices after a call with outcome o.
Fetched(history, o, crypto_symbol, at) ==
    IF o.stored
    THEN [k \in DOMAIN history \cup {crypto_symbol} |->
            IF k = crypto_symbol THEN [text |-> o.result, at |-> at] ELSE history[k]]
    ELSE history

\* A direct call of get_crypto_price.
GetCryptoPriceCall ==
    /\ \E d \in PriceDelays, g \in ReadGaps, s \in Symbols :
        \E response \in Responses(s) :
        \E o \in {get_crypto_price(request_timestamps, cache, s, now + d,
                                   now + d + g, response)} :
            LET t == now + d IN
            /\ t + g <= MaxPriceTime
            /\ o.limited \/ Len(calls) < MaxPriceCalls
            /\ now' = t + g
            /\ request_timestamps' = o.request_timestamps
            /\ cache' = o.cache
            /\ fetched' = Fetched(fetched, o, s, t + g)
            /\ calls' = Accepted(calls, o.limited, t, t + g, o.http)
            /\ last' = [op |-> "get_crypto_price", symbol |-> s, t |-> t,
                        current_time |-> t + g, limited |-> o.limited,
                        response |-> IF o.http THEN response ELSE [type |-> "unused"],
                        http |-> o.http, raised |-> o.raised, result |-> o.result]
    /\ UNCHANGED <<context, processed, loop, stdin>>

NextPrice == GetCryptoPriceCall

SpecPrice == Init /\ [][NextPrice]_vars

----------------------------------------------------------------------------
(* The conversation: context, intent classification, the three handlers.   *)

INTRODUCTION == "Hello! You are interacting with a cryptocurrency expert. I can provide real-time crypto prices and answer related questions. If you misspell a crypto name, I will correct it for you."

LANGUAGE_CHANGE_MESSAGE == "I have noted your language change request. You can continue using the new language, but I will respond in English to ensure consistency and clarity."

\* Python's None, as the value of a missing intent.
None == "<None>"

\* The most process_user_message calls in one run of the model.
MaxTurns == 2

\* What the user may type, and the prose the model may answer with.
Texts == {"What is the price of bitcoin?", "Bonjour"}

PROSE == "Bitcoin is a cryptocurrency."

\* add_message_to_context with the message put in front.
add_message_to_context_front(ctx, role, content) ==
    <<[role |-> role, content |-> content]>> \o ctx

add_message_to_context(ctx, role, content) ==
    Append(ctx, [role |-> role, content |-> content])

\* The classification completion: the call raises, or it returns a text of
\* which the code sees whether it holds a fenced JSON block (the regex of line
\* 91), whether the block parses (json.loads), and the value under "intent".
ClassifierReplies ==
    {[raises |-> TRUE, fenced |-> FALSE, valid |-> FALSE, has_intent |-> FALSE, intent |-> None],
     [raises |-> FALSE, fenced |-> FALSE, valid |-> FALSE, has_intent |-> FALSE, intent |-> None],
     [raises |-> FALSE, fenced |-> TRUE, valid |-> FALSE, has_intent |-> FALSE, intent |-> None],
     [raises |-> FALSE, fenced |-> TRUE, valid |-> TRUE, has_intent |-> FALSE, intent |-> None]}
    \cup {[raises |-> FALSE, fenced |-> TRUE, valid |-> TRUE, has_intent |-> TRUE, intent |-> i] :
             i \in {"crypto", "general", "language_change", "weather"}}

\* classify_intent: the value of classification["intent"].
classify_intent(reply) ==
    IF reply.raises THEN "general"
    ELSE IF ~reply.fenced THEN "general"
    ELSE IF ~reply.valid THEN "general"
    ELSE IF ~reply.has_intent THEN None
    ELSE reply.intent

\* The exceptions the handlers may meet; all derive from Exception.
Exceptions == {"JSONDecodeError", "AttributeError", "KeyError", "APIError"}

\* What a handler is in the middle of: the agent's state, the strings printed
\* so far, the calls made, and the exception raised inside its try block ("" for
\* none).
Running(ctx, ts, c, clock, h, f) ==
    [context |-> ctx, request_timestamps |-> ts, cache |-> c, now |-> clock,
     calls |-> h, fetched |-> f, emitted |-> <<>>, completions |-> 0,
     lookups |-> 0, exception |-> "", escaped |-> FALSE]

Emit(run, text) ==
    [run EXCEPT !.context = add_message_to_context(@, "assistant", text),
                !.emitted = Append(@, text)]

\* An except clause for the listed types followed by except Exception.
Except(run, listed) ==
    IF run.exception = "" THEN run
    ELSE [run EXCEPT !.escaped = ~(run.exception \in listed \/ run.exception \in Exceptions)]

\* The arguments string of a tool call: not JSON, JSON without crypto_symbol,
\* or JSON with it.
BadArguments == [valid |-> FALSE, has_symbol |-> FALSE, crypto_symbol |-> ""]

NoSymbolArguments == [valid |-> TRUE, has_symbol |-> FALSE, crypto_symbol |-> ""]

SymbolArguments(s) == [valid |-> TRUE, has_symbol |-> TRUE, crypto_symbol |-> s]

\* A tool call of the model's response, with what the world answers if it
\* leads to a price lookup: how far the clock has moved, and the HTTP response.
ToolCall(name, arguments, delay, response) ==
    [name |-> name, arguments |-> arguments, delay |-> delay, response |-> response]

PriceResponse == [type |-> "json_object",
                  data |-> [k \in {"bitcoin"} |-> [object |-> TRUE, has_usd |-> TRUE, usd |-> 65000]]]

Lookups ==
    {ToolCall("get_crypto_price", SymbolArguments("bitcoin"), d, r) :
        d \in {0, rate_limit_window},
        r \in {PriceResponse, [type |-> "json_list"], [type |-> "network_error"]}}

FirstLookup == ToolCall("get_crypto_price", SymbolArguments("bitcoin"), 0, PriceResponse)

OtherTool == ToolCall("get_weather", SymbolArguments("bitcoin"), 0, PriceResponse)

BadCall == ToolCall("get_crypto_price", BadArguments, 0, PriceResponse)

NoSymbolCall == ToolCall("get_crypto_price", NoSymbolArguments, 0, PriceResponse)

ToolCallLists ==
    {<<>>, <<OtherTool>>, <<BadCall>>, <<NoSymbolCall>>}
    \cup {<<l>> : l \in Lookups}
    \cup {<<FirstLookup, FirstLookup>>, <<FirstLookup, BadCall>>, <<OtherTool, FirstLookup>>,
          <<FirstLookup, ToolCall("get_crypto_price", SymbolArguments("bitcoin"), 0,
                                  [type |-> "json_list"])>>}

\* The chat completion of a handler: the call raises, or returns tool calls
\* (none for an answer in prose) and a content.
CryptoCompletions ==
    {[raises |-> TRUE, tool_calls |-> <<>>, content |-> ""]}
    \cup {[raises |-> FALSE, tool_calls |-> tcs, content |-> PROSE] : tcs \in ToolCallLists}

GeneralCompletions ==
    {[raises |-> TRUE, tool_calls |-> <<>>, content |-> ""],
     [raises |-> FALSE, tool_calls |-> <<>>, content |-> PROSE]}

\* Lines 161-167: the loop over the tool calls; it ends at the first exception.
RECURSIVE RunToolCalls(_, _)
RunToolCalls(run, tool_calls) ==
    IF tool_calls = <<>> THEN run
    ELSE LET tool_call == Head(tool_calls) IN
         IF tool_call.name # "get_crypto_price"
         THEN RunToolCalls(run, Tail(tool_calls))
         ELSE IF ~tool_call.arguments.valid
         THEN [run EXCEPT !.exception = "JSONDecodeError"]
         ELSE IF ~tool_call.arguments.has_symbol
         THEN [run EXCEPT !.exception = "KeyError"]
         ELSE LET crypto_symbol == tool_call.arguments.crypto_symbol
                  t == run.now + tool_call.delay
                  o == get_crypto_price(run.request_timestamps, run.cache,
                                        crypto_symbol, t, t, tool_call.response)
                  looked == [run EXCEPT
                               !.now = t,
                               !.request_timestamps = o.request_timestamps,
                               !.cache = o.cache,
                               !.calls = Accepted(@, o.limited, t, t, o.http),
                               !.fetched = Fetched(@, o, crypto_symbol, t),
                               !.lookups = @ + 1]
              IN  IF o.raised
                  THEN [looked EXCEPT !.exception = o.result]
                  ELSE RunToolCalls(Emit(looked, o.result), Tail(tool_calls))

HasAssistant(ctx) == \E i \in 1..Len(ctx) : ctx[i].role = "assistant"

\* process_crypto_query with a fixed apology appended when the try block fails.
process_crypto_query_apologising(run, completion) ==
    LET introduced ==
            IF HasAssistant(run.context) THEN run
            ELSE [run EXCEPT !.context = add_message_to_context(@, "assistant", INTRODUCTION)]
        called == [introduced EXCEPT !.completions = @ + 1]
    IN  IF completion.raises
        THEN Emit([called EXCEPT !.exception = "APIError"], FAILED_MESSAGE)
        ELSE IF completion.tool_calls # <<>>
        THEN Except(RunToolCalls(called, completion.tool_calls),
                    {"JSONDecodeError", "AttributeError", "KeyError"})
        ELSE Emit(called, completion.content)

\* process_crypto_query with the introduction added on every turn.
process_crypto_query_introducing(run, completion) ==
    LET introduced == [run EXCEPT !.context =
                          add_message_to_context(@, "assistant", INTRODUCTION)]
        called == [introduced EXCEPT !.completions = @ + 1]
    IN  Except(IF completion.raises
               THEN [called EXCEPT !.exception = "APIError"]
               ELSE IF completion.tool_calls # <<>>
               THEN RunToolCalls(called, completion.tool_calls)
               ELSE Emit(called, completion.content),
               {"JSONDecodeError", "AttributeError", "KeyError"})

\* process_crypto_query with the prose emitted after the tool calls as well.
process_crypto_query_prose_too(run, completion) ==
    LET introduced ==
            IF HasAssistant(run.context) THEN run
            ELSE [run EXCEPT !.context = add_message_to_context(@, "assistant", INTRODUCTION)]
        called == [introduced EXCEPT !.completions = @ + 1]
    IN  Except(IF completion.raises
               THEN [called EXCEPT !.exception = "APIError"]
               ELSE Emit(RunToolCalls(called, completion.tool_calls), completion.content),
               {"JSONDecodeError", "AttributeError", "KeyError"})

process_crypto_query(run, completion) ==
    LET introduced ==
            IF HasAssistant(run.context) THEN run
            ELSE [run EXCEPT !.context = add_message_to_context(@, "assistant", INTRODUCTION)]
        called == [introduced EXCEPT !.completions = @ + 1]
    IN  Except(IF completion.raises
               THEN [called EXCEPT !.exception = "APIError"]
               ELSE IF completion.tool_calls # <<>>
               THEN RunToolCalls(called, completion.tool_calls)
               ELSE Emit(called, completion.content),
               {"JSONDecodeError", "AttributeError", "KeyError"})

\* process_language_change with the user's text quoted in the answer.
process_language_change_echo(run, user_message) ==
    Emit(run, LANGUAGE_CHANGE_MESSAGE \o " (" \o user_message \o ")")

process_language_change(run, user_message) ==
    Emit(run, LANGUAGE_CHANGE_MESSAGE)

process_general_query(run, completion) ==
    LET called == [run EXCEPT !.completions = @ + 1] IN
    Except(IF completion.raises
           THEN [called EXCEPT !.exception = "APIError"]
           ELSE Emit(called, completion.content),
           {"AttributeError", "KeyError"})

\* process_user_message with the user message appended after the handler ran.
process_user_message_answer_first(run, user_message, reply, completion) ==
    LET called == [run EXCEPT !.completions = @ + 1]
        intent == classify_intent(reply)
        handled == IF intent = "crypto" THEN process_crypto_query(called, completion)
                   ELSE IF intent = "language_change"
                   THEN process_language_change(called, user_message)
                   ELSE process_general_query(called, completion)
    IN  [handled EXCEPT !.context = add_message_to_context(@, "user", user_message)]

\* process_user_message: the user message is appended, the intent classified
\* (one completion), and one handler runs.
process_user_message(run, user_message, reply, completion) ==
    LET added == [run EXCEPT !.context = add_message_to_context(@, "user", user_message),
                             !.completions = @ + 1]
        intent == classify_intent(reply)
    IN  IF intent = "crypto" THEN process_crypto_query(added, completion)
        ELSE IF intent = "language_change" THEN process_language_change(added, user_message)
        ELSE process_general_query(added, completion)

\* The number of process_user_message calls so far.
Turns == Cardinality({i \in 1..Len(context) : context[i].role = "user"})

\* One call of process_user_message, with the completions it needs.
Turn(user_message, reply, completion) ==
    /\ Turns < MaxTurns
    /\ \E run \in {process_user_message(
                      Running(context, request_timestamps, cache, now, calls, fetched),
                      user_message, reply, completion)} :
        /\ context' = run.context
        /\ request_timestamps' = run.request_timestamps
        /\ cache' = run.cache
        /\ now' = run.now
        /\ calls' = run.calls
        /\ fetched' = run.fetched
        /\ processed' = Append(processed, [text |-> user_message,
                                           crypto |-> classify_intent(reply) = "crypto"])
        /\ last' = [op |-> "process_user_message", text |-> user_message,
                    reply |-> reply, intent |-> classify_intent(reply),
                    completion |-> completion, base |-> Len(context),
                    emitted |-> run.emitted, completions |-> run.completions,
                    lookups |-> run.lookups, exception |-> run.exception,
                    escaped |-> run.escaped]

CryptoTurn ==
    \E user_message \in Texts, reply \in ClassifierReplies, completion \in CryptoCompletions :
        /\ classify_intent(reply) = "crypto"
        /\ Turn(user_message, reply, completion)
        /\ UNCHANGED <<loop, stdin>>

LanguageChangeTurn ==
    \E user_message \in Texts, reply \in ClassifierReplies :
        /\ classify_intent(reply) = "language_change"
        /\ Turn(user_message, reply, [raises |-> FALSE, tool_calls |-> <<>>, content |-> ""])
        /\ UNCHANGED <<loop, stdin>>

GeneralTurn ==
    \E user_message \in Texts, reply \in ClassifierReplies, completion \in GeneralCompletions :
        /\ classify_intent(reply) \notin {"crypto", "language_change"}
        /\ Turn(user_message, reply, completion)
        /\ UNCHANGED <<loop, stdin>>

Next == CryptoTurn \/ LanguageChangeTurn \/ GeneralTurn

Spec == Init /\ [][Next]_vars

----------------------------------------------------------------------------
(* start_conversation: one action per pass of the while loop.  A pass reads *)
(* a line with input(), which returns the line, raises KeyboardInterrupt    *)
(* (the user interrupts while the program waits) or raises EOFError (the    *)
(* input has ended, and every later input() raises it again).               *)

\* What the user may type at the prompt: the messages, and words that spell
\* exit, one of them followed by a blank.
Lines == Texts \cup {"exit", "Exit", "EXIT", "exit "}

\* user_input.lower() with every line left as it is.
Lower_unchanged(line) == line

\* user_input.lower(), on the lines above.
Lower(line) ==
    CASE line = "Exit" -> "exit"
      [] line = "EXIT" -> "exit"
      [] line = "What is the price of bitcoin?" -> "what is the price of bitcoin?"
      [] line = "Bonjour" -> "bonjour"
      [] OTHER -> line

\* The completions a turn may get, by the branch it takes.
CompletionsFor(intent) ==
    IF intent = "crypto" THEN CryptoCompletions
    ELSE IF intent = "language_change"
    THEN {[raises |-> FALSE, tool_calls |-> <<>>, content |-> ""]}
    ELSE GeneralCompletions

\* The except clauses of the loop with the one for Exception left out.
AfterPass_uncaught(exception) ==
    IF exception = "" THEN "reading"
    ELSE IF exception = "KeyboardInterrupt" THEN "ended"
    ELSE "crashed"

\* Lines 209-214: where the loop is after a pass that raised exception ("" for
\* none): KeyboardInterrupt breaks, every Exception is printed and the loop
\* goes on, anything else leaves start_conversation.
AfterPass(exception) ==
    IF exception = "" THEN "reading"
    ELSE IF exception = "KeyboardInterrupt" THEN "ended"
    ELSE IF exception \in Exceptions \cup {"EOFError"} THEN "reading"
    ELSE "crashed"

\* input() returns a line that is not exit: process_user_message runs.
ReadMessage ==
    /\ loop = "reading"
    /\ stdin = "open"
    /\ \E user_input \in Lines, reply \in ClassifierReplies :
        \E completion \in CompletionsFor(classify_intent(reply)) :
            /\ Lower(user_input) # "exit"
            /\ Turn(user_input, reply, completion)
            /\ loop' = AfterPass(IF last'.escaped THEN last'.exception ELSE "")
    /\ UNCHANGED stdin

\* input() returns a line that is exit in some case: the loop breaks.
ReadExit ==
    /\ loop = "reading"
    /\ stdin = "open"
    /\ \E user_input \in Lines :
        /\ Lower(user_input) = "exit"
        /\ last' = [op |-> "input", event |-> "exit", line |-> user_input]
    /\ loop' = "ended"
    /\ UNCHANGED <<now, request_timestamps, cache, context, calls, fetched,
                   processed, stdin>>

\* input() raises KeyboardInterrupt.
ReadInterrupt ==
    /\ loop = "reading"
    /\ last' = [op |-> "input", event |-> "KeyboardInterrupt", line |-> ""]
    /\ loop' = AfterPass("KeyboardInterrupt")
    /\ UNCHANGED <<now, request_timestamps, cache, context, calls, fetched,
                   processed, stdin>>

\* input() raises EOFError.
ReadEOF ==
    /\ loop = "reading"
    /\ last' = [op |-> "input", event |-> "EOFError", line |-> ""]
    /\ loop' = AfterPass("EOFError")
    /\ stdin' = "eof"
    /\ UNCHANGED <<now, request_timestamps, cache, context, calls, fetched, processed>>

NextLoop == ReadMessage \/ ReadExit \/ ReadInterrupt \/ ReadEOF

SpecLoop == Init /\ [][NextLoop]_vars

\* A pass that takes the input forward: it consumes a line, or meets the end
\* of the input for the first time, or ends the loop.  An interruption by the
\* user is no part of the input.
InputPass == <<ReadMessage \/ ReadExit \/ ReadEOF>>_vars

----------------------------------------------------------------------------
(* Properties of the rate limiter and of get_crypto_price                  *)

IsPriceCall == last.op = "get_crypto_price"

\* The accepted calls of history h that are less than a window old at time t.
InWindow(h, t) == {i \in 1..Len(h) : t - h[i].t < rate_limit_window}

\* The history as it was before the last call.
Earlier == IF last.limited THEN calls ELSE SubSeq(calls, 1, Len(calls) - 1)

\* C1: a call of is_rate_limited succeeds (returns False) exactly when fewer
\* than N = 5 accepted calls lie within the last W = 60 seconds (are less than
\* W old); so the first N calls of a window succeed and the next one fails.
C1_RateLimit ==
    last.op = "is_rate_limited" =>
        /\ Cardinality(InWindow(Earlier, last.t)) < rate_limit_max_requests
              => ~last.limited
        /\ Cardinality(InWindow(Earlier, last.t)) >= rate_limit_max_requests
              => last.limited

\* A call is rejected after an earlier window has run out and filled again.
C1_Witness ==
    /\ last.op = "is_rate_limited"
    /\ last.limited
    /\ Len(calls) > rate_limit_max_requests

\* The HTTP requests of the history issued in the window that opens at time a,
\* by the time they were issued, and by the time their call was recorded.
IssuedIn(a) ==
    {i \in 1..Len(calls) : calls[i].http /\ a <= calls[i].at
                                /\ calls[i].at < a + rate_limit_window}

RecordedIn(a) ==
    {i \in 1..Len(calls) : calls[i].http /\ a <= calls[i].t
                                /\ calls[i].t < a + rate_limit_window}

\* A call that issued the HTTP request had its timestamp added first.
RecordedBeforeRequest ==
    (IsPriceCall /\ last.http) =>
        /\ ~last.limited
        /\ request_timestamps # <<>>
        /\ Last(request_timestamps) = last.t

\* C2 as stated: every HTTP request follows the recording of its call's
\* timestamp, and no interval of W = 60 seconds holds more than N = 5 issued
\* HTTP requests.
C2_Original ==
    /\ RecordedBeforeRequest
    /\ \A i \in 1..Len(calls) :
          calls[i].http => Cardinality(IssuedIn(calls[i].at)) <= rate_limit_max_requests

\* C2 amended: every HTTP request follows the recording of its call's
\* timestamp, and the calls whose recorded timestamps lie in one interval of
\* W = 60 seconds (a <= t < a + W) issue at most N = 5 HTTP requests.
C2_RecordedBound ==
    /\ RecordedBeforeRequest
    /\ \A i \in 1..Len(calls) :
          calls[i].http => Cardinality(RecordedIn(calls[i].t)) <= rate_limit_max_requests

\* Five HTTP requests recorded in one window, and a sixth call already accepted.
C2_Witness ==
    /\ IsPriceCall
    /\ last.http
    /\ Len(calls) > rate_limit_max_requests
    /\ \E i \in 1..Len(calls) :
          Cardinality(RecordedIn(calls[i].t)) = rate_limit_max_requests

\* C3: a get_crypto_price call the rate limiter rejects returns the advisory
\* string, issues no HTTP request and leaves the cache as it was; and a call
\* made when five earlier calls, each with any outcome but a rejection (fresh
\* fetch, cache hit, failure, missing price), lie within the last 60 seconds
\* is rejected.
C3_Rejected ==
    [][ last'.op = "get_crypto_price" =>
          /\ last'.limited =>
                /\ last'.result = RATE_LIMIT_MESSAGE
                /\ ~last'.raised
                /\ ~last'.http
                /\ cache' = cache
                /\ calls' = calls
          /\ Cardinality(InWindow(calls, last'.t)) >= rate_limit_max_requests
                => last'.limited ]_vars

\* A sixth call is rejected after five accepted calls, one of which did not
\* reach the network, with a price in the cache.
C3_Witness ==
    /\ IsPriceCall
    /\ last.limited
    /\ last.symbol \in DOMAIN cache
    /\ \E i \in 1..Len(calls) : ~calls[i].http

\* Two calls for one symbol that follow each other less than F = 60 seconds
\* apart and both return a string.
IsConsecutivePair ==
    /\ last.op = "get_crypto_price"
    /\ last'.op = "get_crypto_price"
    /\ last'.symbol = last.symbol
    /\ last'.t - last.t < cache_duration
    /\ last'.current_time - last.current_time < cache_duration
    /\ ~last.raised /\ ~last'.raised

\* C4 as stated, for two calls that follow each other: two get_crypto_price
\* calls for one symbol less than F = 60 seconds apart return the same string
\* and issue at most one HTTP request between them.
C4_Original ==
    [][ IsConsecutivePair =>
          /\ last'.result = last.result
          /\ ~(last.http /\ last'.http) ]_vars

\* C4 amended: when a get_crypto_price call has fetched and cached a price for
\* a symbol, every later call for that symbol which the rate limiter accepts
\* and which reads the clock (line 47) less than F = 60 seconds after the
\* first did returns the same string and issues no HTTP request.
C4_Idempotent ==
    [][ ( /\ last'.op = "get_crypto_price"
          /\ ~last'.limited
          /\ last'.symbol \in DOMAIN fetched
          /\ last'.current_time - fetched[last'.symbol].at < cache_duration )
        => ( /\ last'.result = fetched[last'.symbol].text
             /\ ~last'.raised
             /\ ~last'.http
             /\ cache' = cache ) ]_vars

\* A call answered from the cache, 30 seconds after the fetch, with a call for
\* the other symbol in between.
C4_Witness ==
    /\ IsPriceCall
    /\ ~last.limited /\ ~last.http
    /\ last.symbol \in DOMAIN fetched
    /\ last.current_time > fetched[last.symbol].at
    /\ DOMAIN fetched = Symbols

IsFailure(response) == response.type \in {"network_error", "http_500"}

\* C5: when the HTTP request fails (network error, non-2xx status) the call
\* returns 'Failed to fetch price.' and the cache is as it was before: no
\* entry added, an existing entry unchanged.
C5_FailureKeepsCache ==
    [][ (last'.op = "get_crypto_price" /\ IsFailure(last'.response)) =>
          /\ last'.result = FAILED_MESSAGE
          /\ ~last'.raised
          /\ cache' = cache ]_vars

\* An HTTP 500 for a symbol whose stale entry is still in the cache.
C5_Witness ==
    /\ IsPriceCall
    /\ last.response.type = "http_500"
    /\ last.symbol \in DOMAIN cache
    /\ last.current_time - cache[last.symbol].timestamp >= cache_duration

Displayable ==
    {RATE_LIMIT_MESSAGE, FAILED_MESSAGE, NOT_AVAILABLE_MESSAGE}
    \cup {FormatPrice(s, p) : s \in Symbols, p \in Prices}

\* C6: get_crypto_price raises nothing, whatever the HTTP call answers, and
\* returns one of its strings.
C6_NeverRaises ==
    IsPriceCall => (~last.raised /\ last.result \in Displayable)

----------------------------------------------------------------------------
(* Properties of the conversation                                          *)

IsTurn == last.op = "process_user_message"

Labels == {"crypto", "general", "language_change"}

\* C7: classify_intent yields one of the three labels; crypto for a valid
\* fenced block with intent crypto; general when the completion call raises,
\* the reply has no fenced block, the block is not JSON, or the object has no
\* intent field.
C7_ClassifyTotal ==
    IsTurn =>
        /\ last.intent \in Labels
        /\ (/\ ~last.reply.raises /\ last.reply.fenced /\ last.reply.valid
            /\ last.reply.has_intent /\ last.reply.intent = "crypto")
              => last.intent = "crypto"
        /\ (\/ last.reply.raises \/ ~last.reply.fenced \/ ~last.reply.valid
            \/ ~last.reply.has_intent)
              => last.intent = "general"

\* What the last turn added to the context, and what was there before.
Added == SubSeq(context, last.base + 1, Len(context))

Before == SubSeq(context, 1, last.base)

AssistantMessages(texts) ==
    [i \in 1..Len(texts) |-> [role |-> "assistant", content |-> texts[i]]]

IsFailedTurn == IsTurn /\ last.exception # ""

\* C8 as stated: an exception inside the crypto or general branch does not
\* leave process_user_message, and the turn ends with no assistant message
\* after its user message.
C8_Original ==
    IsFailedTurn =>
        /\ ~last.escaped
        /\ Added = <<[role |-> "user", content |-> last.text]>>

\* C8 amended: an exception inside the crypto or general branch does not leave
\* process_user_message, and nothing is appended once it is raised: after the
\* user message the context holds only what the crypto branch appended before
\* the failure, the introduction (when no assistant message came earlier)
\* and the emitted results of the tool calls already handled.
C8_SilentAfterFailure ==
    IsFailedTurn =>
        /\ ~last.escaped
        /\ Added = <<[role |-> "user", content |-> last.text]>>
                   \o (IF last.intent = "crypto" /\ ~HasAssistant(Before)
                       THEN <<[role |-> "assistant", content |-> INTRODUCTION]>>
                       ELSE <<>>)
                   \o AssistantMessages(last.emitted)
        /\ Len(last.emitted) <= last.lookups
        /\ last.completion.raises => last.emitted = <<>>
        /\ last.intent # "crypto" => last.emitted = <<>>

\* A first crypto turn whose second tool call fails after the first was
\* answered: the introduction and one result follow the user message.
C8_Witness ==
    /\ IsFailedTurn
    /\ Len(last.emitted) = 1
    /\ Len(Added) = 3
    /\ Added[2].content = INTRODUCTION

\* C9: the context before each step is a prefix of the context after it.
C9_AppendOnly == [][IsPrefix(context, context')]_vars

\* A context of two turns holding messages of both roles.
C9_Witness ==
    /\ Turns = MaxTurns
    /\ Len(context) >= 4
    /\ HasAssistant(Before)

\* C10: a turn classified as language_change appends the user message and one
\* assistant message with the fixed acknowledgment, emits it, makes no
\* completion but the classification and no price lookup, and leaves
\* request_timestamps and the cache as they were.
C10_LanguageChange ==
    [][ (last'.op = "process_user_message" /\ last'.intent = "language_change") =>
          /\ context' = context \o <<[role |-> "user", content |-> last'.text],
                                     [role |-> "assistant",
                                      content |-> LANGUAGE_CHANGE_MESSAGE]>>
          /\ last'.emitted = <<LANGUAGE_CHANGE_MESSAGE>>
          /\ last'.completions = 1
          /\ last'.lookups = 0
          /\ last'.exception = ""
          /\ request_timestamps' = request_timestamps
          /\ cache' = cache ]_vars

\* A language_change turn after a turn that looked a price up.
C10_Witness ==
    /\ IsTurn
    /\ last.intent = "language_change"
    /\ last.text = "Bonjour"
    /\ cache # <<>>
    /\ request_timestamps # <<>>

----------------------------------------------------------------------------
(* Properties of the sliding window                                        *)

IsLimiterCall == last.op = "is_rate_limited"

\* The recorded timestamps equal to the oldest one.
Oldest(ts) == {i \in 1..Len(ts) : ts[i] = ts[1]}

Full(ts) == Len(ts) = rate_limit_max_requests

\* C12 as stated: when the record is full, a call made at the moment the
\* oldest recorded call is W = 60 seconds old is accepted and leaves the
\* record full again (capacity freed by exactly one), and a call made while
\* the record is full and its oldest timestamp is less than W old is rejected;
\* for every record, equal timestamps included.
C12_Original ==
    [][ (last'.op = "is_rate_limited" /\ Full(request_timestamps)) =>
          /\ last'.t - request_timestamps[1] = rate_limit_window =>
                /\ ~last'.limited
                /\ Full(request_timestamps')
          /\ last'.t - request_timestamps[1] < rate_limit_window =>
                last'.limited ]_vars

\* C12, amended: the call made at the moment the oldest recorded call is W old
\* is accepted and frees as many places as there are recorded calls with that
\* oldest timestamp; the record is full again after it (capacity freed by
\* exactly one) when the next-oldest timestamp is later than the oldest.  A
\* call made while the record is full and its oldest timestamp is less than W
\* old is rejected and leaves the record as it was.
C12_FreesExpired ==
    [][ (last'.op = "is_rate_limited" /\ Full(request_timestamps)) =>
          /\ last'.t - request_timestamps[1] = rate_limit_window =>
                /\ ~last'.limited
                /\ Len(request_timestamps') =
                      rate_limit_max_requests
                          - Cardinality(Oldest(request_timestamps)) + 1
                /\ request_timestamps[2] > request_timestamps[1]
                      => Full(request_timestamps')
          /\ last'.t - request_timestamps[1] < rate_limit_window =>
                /\ last'.limited
                /\ request_timestamps' = request_timestamps ]_vars

\* Five calls, the first earlier than the second; a sixth accepted when the
\* first is W old; the call after it rejected.
C12_Witness ==
    /\ IsLimiterCall
    /\ last.limited
    /\ Len(calls) = rate_limit_max_requests + 1
    /\ calls[2].t > calls[1].t
    /\ Last(calls).t = calls[1].t + rate_limit_window
    /\ last.t = Last(calls).t

\* What a call kept of the record it found: the new record without the
\* timestamp the call added.
KeptBy(limited, ts) == IF limited THEN ts ELSE SubSeq(ts, 1, Len(ts) - 1)

\* C13: a call at time now removes from the record exactly the timestamps t
\* with t < now - W and retains every other, a timestamp exactly W old
\* included; every retained timestamp satisfies now - W <= t <= now.
C13_PruneKeepsWindowEdge ==
    [][ last'.op = "is_rate_limited" =>
          LET current_time == last'.t
              kept == KeptBy(last'.limited, request_timestamps')
          IN  /\ kept = SelectSeq(request_timestamps,
                            LAMBDA t : ~(t < current_time - rate_limit_window))
              /\ \A i \in 1..Len(request_timestamps') :
                    /\ current_time - rate_limit_window <= request_timestamps'[i]
                    /\ request_timestamps'[i] <= current_time ]_vars

\* s is t without some of its first elements.
IsSuffix(s, t) ==
    /\ Len(s) <= Len(t)
    /\ \A i \in 1..Len(s) : s[i] = t[Len(t) - Len(s) + i]

\* C14: a rejected call adds no timestamp (the record changes only by losing
\* its oldest entries), an accepted call adds exactly one, equal to now, at
\* the end; the record never holds more than N = 5 timestamps and is in
\* non-decreasing order.
C14_RecordedInStep ==
    [][ last'.op = "is_rate_limited" =>
          /\ last'.limited => IsSuffix(request_timestamps', request_timestamps)
          /\ ~last'.limited =>
                /\ request_timestamps' # <<>>
                /\ Last(request_timestamps') = last'.t
                /\ IsSuffix(KeptBy(FALSE, request_timestamps'), request_timestamps)
          /\ Len(request_timestamps') <= rate_limit_max_requests
          /\ \A i \in 1..(Len(request_timestamps') - 1) :
                request_timestamps'[i] <= request_timestamps'[i + 1] ]_vars

\* A rejected call that found a record which had lost entries before.
C14_Witness ==
    /\ IsLimiterCall
    /\ last.limited
    /\ Len(calls) > rate_limit_max_requests
    /\ Full(request_timestamps)
    /\ request_timestamps[1] < Last(request_timestamps)

----------------------------------------------------------------------------
(* Properties of the parsed answer and of cache freshness                  *)

\* The cache c with the text stored for symbol k at time t.
WithEntry(c, k, text, t) ==
    [j \in DOMAIN c \cup {k} |->
        IF j = k THEN [price |-> text, timestamp |-> t] ELSE c[j]]

\* The last call got a 2xx answer whose body is an object in which the symbol,
\* when present, maps to an object.
IsParsedObject(op) ==
    /\ op.op = "get_crypto_price"
    /\ op.response.type = "json_object"
    /\ op.symbol \in DOMAIN op.response.data => op.response.data[op.symbol].object

\* C15: on a 2xx answer that parses to a JSON object the call returns 'Price
\* not available.' and leaves the cache unchanged exactly when the symbol key
\* or its usd field is absent; for every numeric usd value p, zero included,
\* it returns 'The current price of <symbol> is $<p> USD.' and stores that
\* string under the symbol, changing no other key.
C15_ParsedBody ==
    [][ IsParsedObject(last') =>
          LET k == last'.symbol
              data == last'.response.data
              absent == k \notin DOMAIN data \/ ~data[k].has_usd
          IN  /\ absent =>
                    /\ last'.result = NOT_AVAILABLE_MESSAGE
                    /\ cache' = cache
              /\ ~absent =>
                    /\ last'.result = FormatPrice(k, data[k].usd)
                    /\ cache' = WithEntry(cache, k, last'.result,
                                          last'.current_time) ]_vars

\* C16: after a fetch stored v for k, every accepted get_crypto_price(k) made
\* while the entry is not older than F = 60 seconds returns v, issues no HTTP
\* request and leaves the cache unchanged; once the entry is older than F the
\* call issues a new HTTP request; the entry of k stays in the cache until a
\* later successful fetch for k overwrites it.
C16_FreshUntilF ==
    [][ ( /\ last'.op = "get_crypto_price"
          /\ ~last'.limited
          /\ last'.symbol \in DOMAIN fetched )
        => LET k == last'.symbol
               age == last'.current_time - fetched[k].at
           IN  /\ age <= cache_duration =>
                     /\ last'.result = fetched[k].text
                     /\ ~last'.http
                     /\ cache' = cache
               /\ age > cache_duration => last'.http
               /\ k \in DOMAIN cache'
               /\ cache'[k] # cache[k] =>
                     /\ last'.http
                     /\ cache'[k] = [price |-> last'.result,
                                     timestamp |-> last'.current_time] ]_vars

----------------------------------------------------------------------------
(* Properties of the crypto branch                                         *)

IntroductionMessage == [role |-> "assistant", content |-> INTRODUCTION]

\* Where the introduction stands in a context.
Introductions(ctx) == {i \in 1..Len(ctx) : ctx[i] = IntroductionMessage}

\* A turn before this one entered the crypto branch.
CryptoEntered == \E i \in 1..Len(processed) : processed[i].crypto

NoAssistant(ctx) == \A i \in 1..Len(ctx) : ctx[i].role # "assistant"

\* C17 as stated: a turn adds the introduction exactly when it is the first
\* turn to enter the crypto branch, whatever turns came before it; the context
\* holds the introduction at most once.
C17_Original ==
    [][ last'.op = "process_user_message" =>
          /\ Introductions(context') # Introductions(context)
                <=> (last'.intent = "crypto" /\ ~CryptoEntered)
          /\ Cardinality(Introductions(context')) <= 1 ]_vars

\* C17, amended: a turn adds the introduction exactly when it is the first
\* turn to enter the crypto branch and the context holds no assistant message
\* yet (no earlier general or language_change turn was answered); the
\* introduction then follows the turn's user message directly; the context
\* holds it at most once.
C17_IntroducedOnce ==
    [][ last'.op = "process_user_message" =>
          /\ Introductions(context') # Introductions(context)
                <=> ( /\ last'.intent = "crypto"
                      /\ ~CryptoEntered
                      /\ NoAssistant(context) )
          /\ Introductions(context') \ Introductions(context)
                \subseteq {Len(context) + 2}
          /\ Cardinality(Introductions(context')) <= 1 ]_vars

\* The first crypto turn comes after an answered turn of another branch, and
\* the context holds no introduction.
C17_Witness ==
    /\ IsTurn
    /\ last.intent = "crypto"
    /\ Len(processed) = 2
    /\ ~processed[1].crypto
    /\ context[2].role = "assistant"
    /\ Introductions(context) = {}

\* The messages a turn added after its user message, the introduction left out.
Answers(before, after) ==
    SelectSeq(SubSeq(after, Len(before) + 2, Len(after)),
              LAMBDA m : m # IntroductionMessage)

\* The strings get_crypto_price returns for a symbol.
PriceStrings(crypto_symbol) ==
    {RATE_LIMIT_MESSAGE, FAILED_MESSAGE, NOT_AVAILABLE_MESSAGE}
    \cup {FormatPrice(crypto_symbol, p) : p \in Prices}

IsCompletedCryptoTurn(op) ==
    /\ op.op = "process_user_message"
    /\ op.intent = "crypto"
    /\ ~op.completion.raises

\* C18 as stated: when the completion of a crypto turn succeeds, the turn
\* appends exactly one assistant message beyond the introduction and emits it:
\* a get_crypto_price result when the response has tool calls, the prose
\* otherwise; for every number and every name of tool calls.
C18_Original ==
    [][ IsCompletedCryptoTurn(last') =>
          LET answers == Answers(context, context') IN
          /\ Len(answers) = 1
          /\ answers[1].role = "assistant"
          /\ last'.emitted = <<answers[1].content>>
          /\ last'.completion.tool_calls = <<>>
                => answers[1].content = last'.completion.content
          /\ last'.completion.tool_calls # <<>>
                => answers[1].content \in PriceStrings("bitcoin") ]_vars

\* C18, amended: when the completion succeeds and the response has no tool
\* call, the prose is appended as one assistant message and emitted, and no
\* price is looked up.  When it has tool calls the prose is not used: for each
\* tool call named get_crypto_price, in order and until one of them fails,
\* the string get_crypto_price returns for its crypto_symbol is appended as an
\* assistant message and emitted; tool calls of other names are skipped.  The
\* turn so appends as many response messages as it handled get_crypto_price
\* tool calls: all of them when no exception was met, fewer otherwise.
C18_ToolArbitration ==
    [][ IsCompletedCryptoTurn(last') =>
          LET answers == Answers(context, context')
              tool_calls == last'.completion.tool_calls
              named == SelectSeq(tool_calls, LAMBDA c : c.name = "get_crypto_price")
          IN  /\ answers = [i \in 1..Len(last'.emitted) |->
                               [role |-> "assistant", content |-> last'.emitted[i]]]
              /\ tool_calls = <<>> =>
                    /\ last'.emitted = <<last'.completion.content>>
                    /\ last'.lookups = 0
                    /\ last'.exception = ""
              /\ tool_calls # <<>> =>
                    /\ Len(last'.emitted) <= Len(named)
                    /\ last'.exception = "" <=> Len(last'.emitted) = Len(named)
                    /\ \A i \in 1..Len(last'.emitted) :
                          last'.emitted[i]
                              \in PriceStrings(named[i].arguments.crypto_symbol)
                    /\ last'.emitted # <<>> =>
                          last'.emitted[1] =
                              get_crypto_price(request_timestamps, cache,
                                  named[1].arguments.crypto_symbol,
                                  now + named[1].delay, now + named[1].delay,
                                  named[1].response).result ]_vars

\* A response with two get_crypto_price tool calls, both answered.
C18_Witness ==
    /\ IsTurn
    /\ last.intent = "crypto"
    /\ Len(last.completion.tool_calls) = 2
    /\ Len(last.emitted) = 2
    /\ last.lookups = 2

----------------------------------------------------------------------------
(* Properties of the conversation loop                                     *)

\* The lines equal to exit in some case.
ExitWords == {"exit", "Exit", "EXIT"}

IsLoopEnd(op) == op.op = "input" /\ op.event \in {"exit", "KeyboardInterrupt"}

\* C11: a pass of the loop that reads a line equal to exit in any case, or
\* whose read is interrupted, ends the loop without calling
\* process_user_message: context, request_timestamps and cache stay as they
\* were.  Every other line is processed and the loop goes on reading, also
\* when the processing raised; the loop ends in no other way and no error
\* leaves it.
C11_LoopEnds ==
    [][ loop = "reading" =>
          /\ loop' # "crashed"
          /\ loop' = "ended" <=> IsLoopEnd(last')
          /\ IsLoopEnd(last') =>
                /\ last'.event = "exit" => last'.line \in ExitWords
                /\ UNCHANGED <<context, request_timestamps, cache, processed>>
          /\ last'.op = "process_user_message" =>
                /\ last'.text \notin ExitWords
                /\ loop' = "reading"
                /\ Len(processed') = Len(processed) + 1
                /\ Last(processed').text = last'.text ]_vars

\* The loop ended by EXIT after two lines were processed, the second of them
\* exit followed by a blank, and both turns failed without an answer.
C11_Witness ==
    /\ loop = "ended"
    /\ last.op = "input"
    /\ last.line = "EXIT"
    /\ Len(processed) = 2
    /\ processed[2].text = "exit "
    /\ Len(context) = 2

\* The contents of the user messages of a context, in order.
UserTexts(ctx) ==
    LET users == SelectSeq(ctx, LAMBDA m : m.role = "user")
    IN  [i \in 1..Len(users) |-> users[i].content]

\* C19: a call of process_user_message appends its user message once, before
\* any assistant message of the turn; turns do not overlap, so the user
\* messages of the context are the processed input lines in order, and the
\* assistant messages of a turn stand after its user message and before the
\* user message of the next turn.
C19_TurnOrder ==
    [][ last'.op = "process_user_message" =>
          /\ IsPrefix(context, context')
          /\ Len(context') > Len(context)
          /\ context'[Len(context) + 1] = [role |-> "user", content |-> last'.text]
          /\ \A i \in (Len(context) + 2)..Len(context') :
                context'[i].role = "assistant"
          /\ processed' = Append(processed, Last(processed'))
          /\ Last(processed').text = last'.text
          /\ UserTexts(context') = [i \in 1..Len(processed') |-> processed'[i].text] ]_vars

\* Two turns with different lines, each answered; the second added more than
\* one assistant message.
C19_Witness ==
    /\ IsTurn
    /\ Len(processed) = 2
    /\ processed[1].text # processed[2].text
    /\ last.base >= 2
    /\ context[2].role = "assistant"
    /\ Len(context) >= last.base + 3

\* C20: for every finite input the loop terminates: as long as the loop has
\* not been left, the next pass takes the input forward, so that when the
\* input has ended without exit and without a keyboard interruption,
\* start_conversation leaves its loop.
C20_Terminates == loop = "reading" => ENABLED InputPass

====
